---------------------------- MODULE Spec2Model ----------------------------
(***************************************************************************)
(* A model of python-mcast: the multicast listener                         *)
(* (src/src/multicast_listener.py) and the binary codec it shares with the *)
(* producer (src/src/multicast_producer.py).                               *)
(*                                                                         *)
(* Four specifications share the variables below:                          *)
(*   SpecStats  the LatencyStats class driven by arbitrary add_latency and *)
(*              get_stats calls;                                           *)
(*   SpecCodec  encode_binary_message -> the wire -> decode_binary_message;*)
(*   Spec       listen_for_multicast, one action per loop iteration;       *)
(*   SpecProducer  the producer's main, one action per step of its loop.   *)
(*                                                                         *)
(* Python integers are unbounded and TLC's are 32 bits wide, so the        *)
(* unsigned 64-bit and 32-bit fields of the binary record are kept as      *)
(* big-endian tuples of 16-bit limbs (4 limbs and 2 limbs).                *)
(***************************************************************************)
EXTENDS Integers, Sequences, FiniteSets

VARIABLES
    stats,        \* the LatencyStats object: window_size, latencies, message_count
    added,        \* history: every sample ever passed to add_latency, in order
    summary,      \* what the last get_stats call returned
    pc,           \* where the process is: "setup", "recv" (listener), "send" and
                  \* "sleep" (producer), "exited"; "off" when no process runs
    format_type,  \* "json" or "binary"
    sock,         \* "unbound" (the name sock is not assigned), "open", "closed"
    received,     \* history: the datagrams recvfrom returned, in order
    reports,      \* what the listener printed, one entry per datagram
    exit_code,    \* "running", or the status the process ended with
    fd,           \* the socket socket.socket() made: "none", "open", "closed"
    message_count,\* the producer's message_count
    sent,         \* history: the datagrams the producer passed to sendto, in order
    wire_msg,     \* the message handed to encode_binary_message
    wire,         \* the bytes on the wire
    tampered,     \* history: the wire bytes were altered after encoding
    decoded       \* what decode_binary_message returned for the wire bytes

vars == <<stats, added, summary, pc, format_type, sock, received, reports,
          exit_code, fd, message_count, sent, wire_msg, wire, tampered,
          decoded>>

listenerVars == <<pc, format_type, sock, received, reports, exit_code, fd>>
producerVars == <<message_count, sent>>
codecVars == <<wire_msg, wire, tampered, decoded>>
statsVars == <<stats, added, summary>>

(***************************************************************************)
(* Bounds of the model.                                                    *)
(***************************************************************************)
MaxWindow == 3      \* window sizes 1..MaxWindow are explored in SpecStats
MaxAdds == 4        \* add_latency calls per behaviour of SpecStats
MaxDatagrams == 3   \* datagrams received per behaviour of Spec

\* The latency samples SpecStats feeds to add_latency (signed nanoseconds).
Samples == {-7, 10, 20, 30, 40}

(***************************************************************************)
(* Sequence helpers.                                                       *)
(***************************************************************************)
RECURSIVE SeqSum(_)
SeqSum(s) == IF s = <<>> THEN 0 ELSE Head(s) + SeqSum(Tail(s))

RECURSIVE SeqSumSq(_)
SeqSumSq(s) == IF s = <<>> THEN 0 ELSE Head(s) * Head(s) + SeqSumSq(Tail(s))

SeqMin(s) == CHOOSE x \in {s[i] : i \in 1..Len(s)} :
                 \A j \in 1..Len(s) : x <= s[j]

SeqMax(s) == CHOOSE x \in {s[i] : i \in 1..Len(s)} :
                 \A j \in 1..Len(s) : x >= s[j]

\* The last k elements of s (all of s when it is shorter).
LastN(s, k) == IF Len(s) <= k THEN s ELSE SubSeq(s, Len(s) - k + 1, Len(s))

(***************************************************************************)
(* LatencyStats                                                            *)
(***************************************************************************)
\* Results of calls are records: kind "ok"/"stats"/"sentinel" for a value,
\* kind "raise" with the exception's class for a call that raised.
Raise(exc) == [kind |-> "raise", exc |-> exc]

\* The string "No messages received yet".
NoMessages == [kind |-> "sentinel"]

\* LatencyStats.__init__: an empty deque(maxlen=window_size), a zero count.
LatencyStatsInit(window_size) ==
    [window_size |-> window_size, latencies |-> <<>>, message_count |-> 0]

\* deque(maxlen=n).append: append on the right; when the deque is full the
\* element on the left is discarded (a deque of maxlen 0 stays empty).
DequeAppendDropsNewest(d, maxlen, x) ==
    IF Len(d) < maxlen THEN Append(d, x) ELSE d

DequeAppendNoEvict(d, maxlen, x) == Append(d, x)

DequeAppend(d, maxlen, x) ==
    IF maxlen = 0 THEN d
    ELSE IF Len(d) < maxlen THEN Append(d, x)
    ELSE Append(Tail(d), x)

\* LatencyStats.add_latency
add_latency(s, latency_ns) ==
    [s EXCEPT !.latencies = DequeAppend(s.latencies, s.window_size, latency_ns),
              !.message_count = s.message_count + 1]

\* statistics.mean: the exact quotient sum/n, kept as numerator and
\* denominator; StatisticsError on no data.
Mean(data) ==
    IF Len(data) < 1 THEN Raise("StatisticsError")
    ELSE [kind |-> "ok", num |-> SeqSum(data), den |-> Len(data)]

\* statistics.stdev: the square root of the sample variance
\*   sum((x - mean)^2) / (n - 1) = (n*sum(x^2) - sum(x)^2) / (n*(n - 1)),
\* kept as the variance's numerator and denominator; StatisticsError on
\* fewer than two data points.
Stdev(data) ==
    IF Len(data) < 2 THEN Raise("StatisticsError")
    ELSE [kind |-> "ok",
          var_num |-> Len(data) * SeqSumSq(data) - SeqSum(data) * SeqSum(data),
          var_den |-> Len(data) * (Len(data) - 1)]

\* The literal 0 that get_stats uses for the deviation of a single sample.
ZeroStd == [kind |-> "ok", var_num |-> 0, var_den |-> 1]

\* The values the formatted line of get_stats shows.
StatsLine(s, avg, std) ==
    IF avg.kind = "raise" THEN avg
    ELSE IF std.kind = "raise" THEN std
    ELSE [kind |-> "stats",
          current |-> s.latencies[Len(s.latencies)],
          avg |-> avg,
          std |-> std,
          min |-> SeqMin(s.latencies),
          max |-> SeqMax(s.latencies),
          messages |-> s.message_count]

\* LatencyStats.get_stats: the sentinel for an empty window, else the
\* statistics of the window.  An exception of mean or stdev propagates.
GetStatsAlwaysStdev(s) ==
    IF s.latencies = <<>> THEN NoMessages
    ELSE StatsLine(s, Mean(s.latencies), Stdev(s.latencies))

get_stats(s) ==
    IF s.latencies = <<>> THEN NoMessages
    ELSE StatsLine(s, Mean(s.latencies),
                   IF Len(s.latencies) > 1 THEN Stdev(s.latencies) ELSE ZeroStd)

(***************************************************************************)
(* The binary codec: struct format '!QIffB'.                               *)
(*                                                                         *)
(* An unsigned integer field is a big-endian tuple of 16-bit limbs.  A     *)
(* Python float (IEEE-754 binary64, normal range) is the record            *)
(*   [s, e, hi, lo]: sign, unbiased exponent, the top 23 bits and the low  *)
(* 29 bits of the 52-bit fraction, so that the 32-bit float of the same    *)
(* sign and exponent has fraction hi.                                      *)
(***************************************************************************)
Bytes == 0..255

\* One 16-bit limb as two bytes, most significant first ('!': network order).
PackU16(l) == <<l \div 256, l % 256>>

UnpackU16(b) == b[1] * 256 + b[2]

\* 'Q': 4 limbs as 8 bytes; 'I': 2 limbs as 4 bytes.
PackQ(v) == PackU16(v[1]) \o PackU16(v[2]) \o PackU16(v[3]) \o PackU16(v[4])

PackI(v) == PackU16(v[1]) \o PackU16(v[2])

UnpackQ(b) == <<UnpackU16(SubSeq(b, 1, 2)), UnpackU16(SubSeq(b, 3, 4)),
                UnpackU16(SubSeq(b, 5, 6)), UnpackU16(SubSeq(b, 7, 8))>>

UnpackI(b) == <<UnpackU16(SubSeq(b, 1, 2)), UnpackU16(SubSeq(b, 3, 4))>>

\* 'f' on pack: the double rounded to the nearest 32-bit float, ties to
\* even; OverflowError when the result leaves the 32-bit range.
RoundF32(f) ==
    LET up == f.lo > 268435456 \/ (f.lo = 268435456 /\ f.hi % 2 = 1)
        carry == up /\ f.hi = 8388607
    IN  [s |-> f.s,
         e |-> IF carry THEN f.e + 1 ELSE f.e,
         hi |-> IF carry THEN 0 ELSE IF up THEN f.hi + 1 ELSE f.hi,
         lo |-> 0]

F32Bytes(g) ==
    LET E == g.e + 127
    IN  <<g.s * 128 + (E \div 2),
          (E % 2) * 128 + (g.hi \div 65536),
          (g.hi \div 256) % 256,
          g.hi % 256>>

PackRounded(g) ==
    IF g.e > 127 THEN Raise("OverflowError")
    ELSE [kind |-> "ok", bytes |-> F32Bytes(g)]

PackF(f) == PackRounded(RoundF32(f))

\* 'f' on unpack: the 32-bit float widened to a double, which is exact.
UnpackF(b) ==
    [s |-> b[1] \div 128,
     e |-> (b[1] % 128) * 2 + (b[2] \div 128) - 127,
     hi |-> (b[2] % 128) * 65536 + b[3] * 256 + b[4],
     lo |-> 0]

\* struct.calcsize('!QIffB'): no padding in network order.
StructSize == 8 + 4 + 4 + 4 + 1

\* struct.pack with the five fields, the floats t and h already packed.
PackRecord(message, t, h, status) ==
    IF t.kind = "raise" THEN t
    ELSE IF h.kind = "raise" THEN h
    ELSE [kind |-> "ok",
          bytes |-> PackQ(message.send_time) \o PackI(message.counter)
                    \o t.bytes \o h.bytes \o <<status>>]

\* encode_binary_message
EncodeStatusInverted(message) ==
    PackRecord(message, PackF(message.data.temperature),
               PackF(message.data.humidity),
               IF message.data.status = "active" THEN 0 ELSE 1)

encode_binary_message(message) ==
    PackRecord(message, PackF(message.data.temperature),
               PackF(message.data.humidity),
               IF message.data.status = "active" THEN 1 ELSE 0)

\* The dict decode_binary_message builds from the five unpacked fields.
DecodedMessage(data, status) ==
    [kind |-> "ok",
     message |-> [send_time |-> UnpackQ(SubSeq(data, 1, 8)),
                  counter |-> UnpackI(SubSeq(data, 9, 12)),
                  data |-> [temperature |-> UnpackF(SubSeq(data, 13, 16)),
                            humidity |-> UnpackF(SubSeq(data, 17, 20)),
                            status |-> status]]]

\* decode_binary_message: struct.unpack raises struct.error unless the
\* buffer is exactly StructSize bytes long.
DecodeUnpackFrom(data) ==
    IF Len(data) < StructSize THEN Raise("struct.error")
    ELSE DecodedMessage(data, IF data[21] = 1 THEN "active" ELSE "inactive")

DecodeStatusTruthy(data) ==
    IF Len(data) # StructSize THEN Raise("struct.error")
    ELSE DecodedMessage(data, IF data[21] # 0 THEN "active" ELSE "inactive")

decode_binary_message(data) ==
    IF Len(data) # StructSize THEN Raise("struct.error")
    ELSE DecodedMessage(data, IF data[21] = 1 THEN "active" ELSE "inactive")

(***************************************************************************)
(* The text format: bytes.decode('utf-8') and json.loads.                  *)
(*                                                                         *)
(* A text is the sequence of its code points.  A JSON value is a record    *)
(* tagged by its Python type t: "NoneType", "bool", "int", "float", "str", *)
(* "list", "dict".  A float is the decimal the text spells, mant *         *)
(* 10^-exp10, and arithmetic on it is exact (the rounding of binary        *)
(* floating point is not modelled).                                        *)
(***************************************************************************)
IsCont(b) == b >= 128 /\ b <= 191

\* The number of bytes of the UTF-8 sequence that starts at data[i], 0 when
\* no well-formed sequence starts there (Unicode table 3-7: no overlong
\* forms, no surrogates, nothing above U+10FFFF).
Utf8SeqLen(data, i) ==
    LET n == Len(data)
        b == data[i]
    IN  IF b <= 127 THEN 1
        ELSE IF b >= 194 /\ b <= 223
        THEN IF i + 1 <= n /\ IsCont(data[i + 1]) THEN 2 ELSE 0
        ELSE IF b >= 224 /\ b <= 239
        THEN IF /\ i + 2 <= n
                /\ IsCont(data[i + 1]) /\ IsCont(data[i + 2])
                /\ (b = 224 => data[i + 1] >= 160)
                /\ (b = 237 => data[i + 1] <= 159)
             THEN 3 ELSE 0
        ELSE IF b >= 240 /\ b <= 244
        THEN IF /\ i + 3 <= n
                /\ IsCont(data[i + 1]) /\ IsCont(data[i + 2])
                /\ IsCont(data[i + 3])
                /\ (b = 240 => data[i + 1] >= 144)
                /\ (b = 244 => data[i + 1] <= 143)
             THEN 4 ELSE 0
        ELSE 0

\* The code point of the well-formed sequence of k bytes at data[i].
Utf8CodePoint(data, i, k) ==
    IF k = 1 THEN data[i]
    ELSE IF k = 2 THEN (data[i] % 32) * 64 + (data[i + 1] % 64)
    ELSE IF k = 3 THEN (data[i] % 16) * 4096 + (data[i + 1] % 64) * 64
                       + (data[i + 2] % 64)
    ELSE (data[i] % 8) * 262144 + (data[i + 1] % 64) * 4096
         + (data[i + 2] % 64) * 64 + (data[i + 3] % 64)

\* The sequence of k bytes at data[i] decoded (k = 0: none starts there).
RECURSIVE Utf8From(_, _, _)
RECURSIVE Utf8Step(_, _, _, _)
Utf8Step(data, i, acc, k) ==
    IF k = 0 THEN Raise("UnicodeDecodeError")
    ELSE Utf8From(data, i + k, Append(acc, Utf8CodePoint(data, i, k)))

Utf8From(data, i, acc) ==
    IF i > Len(data) THEN [kind |-> "ok", text |-> acc]
    ELSE Utf8Step(data, i, acc, Utf8SeqLen(data, i))

\* data.decode('utf-8')
Utf8Decode(data) == Utf8From(data, 1, <<>>)

\* json.loads for texts without whitespace, string escapes or exponents
\* (the texts of WellFormedTexts and BrokenTexts).  A parse step returns
\* [ok, val, next]: the value read and the index after it.
ParseFail == [ok |-> FALSE, val |-> [t |-> "NoneType"], next |-> 0]

Parsed(v, i) == [ok |-> TRUE, val |-> v, next |-> i]

IsDigit(c) == c >= 48 /\ c <= 57

At(t, i) == IF i >= 1 /\ i <= Len(t) THEN t[i] ELSE -1

\* The literal lit at t[i..].
StartsWith(t, i, lit) ==
    /\ i + Len(lit) - 1 <= Len(t)
    /\ SubSeq(t, i, i + Len(lit) - 1) = lit

\* The index after the digits that start at t[i].
RECURSIVE DigitsEnd(_, _)
DigitsEnd(t, i) == IF IsDigit(At(t, i)) THEN DigitsEnd(t, i + 1) ELSE i

\* The value of the digits t[i..j-1] appended to acc.
RECURSIVE DigitsValue(_, _, _, _)
DigitsValue(t, i, j, acc) ==
    IF i >= j THEN acc
    ELSE DigitsValue(t, i + 1, j, acc * 10 + (t[i] - 48))

\* A number with integer digits t[i0..i1-1] and fraction digits
\* t[i1+1..i2-1]: a float.
FractionAt(t, i0, i1, i2, sign) ==
    IF i2 = i1 + 1 THEN ParseFail
    ELSE Parsed([t |-> "float",
                 mant |-> sign * DigitsValue(t, i1 + 1, i2,
                                             DigitsValue(t, i0, i1, 0)),
                 exp10 |-> i2 - (i1 + 1)], i2)

\* A number with integer digits t[i0..i1-1]: at least one, no leading zero.
NumberAt(t, i0, i1, sign) ==
    IF i1 = i0 \/ (At(t, i0) = 48 /\ i1 > i0 + 1) THEN ParseFail
    ELSE IF At(t, i1) = 46
    THEN FractionAt(t, i0, i1, DigitsEnd(t, i1 + 1), sign)
    ELSE Parsed([t |-> "int", v |-> sign * DigitsValue(t, i0, i1, 0)], i1)

ParseNumber(t, i) ==
    IF At(t, i) = 45 THEN NumberAt(t, i + 1, DigitsEnd(t, i + 1), -1)
    ELSE NumberAt(t, i, DigitsEnd(t, i), 1)

\* The index of the closing quote of a string whose characters start at
\* t[j], 0 when the string does not end or holds a control character or a
\* backslash.
RECURSIVE StringEnd(_, _)
StringEnd(t, j) ==
    IF j > Len(t) \/ t[j] < 32 \/ t[j] = 92 THEN 0
    ELSE IF t[j] = 34 THEN j
    ELSE StringEnd(t, j + 1)

StringAt(t, i, j) ==
    IF j = 0 THEN ParseFail
    ELSE Parsed([t |-> "str", s |-> SubSeq(t, i + 1, j - 1)], j + 1)

ParseString(t, i) ==
    IF At(t, i) # 34 THEN ParseFail ELSE StringAt(t, i, StringEnd(t, i + 1))

RECURSIVE ParseValue(_, _)
RECURSIVE ParseElements(_, _, _)
RECURSIVE AfterElement(_, _, _)
RECURSIVE ParseMembers(_, _, _)
RECURSIVE AfterKey(_, _, _)
RECURSIVE AfterMember(_, _, _, _)

\* An element r of an array was read: "," and more, or "]".
AfterElement(t, acc, r) ==
    IF ~r.ok THEN ParseFail
    ELSE IF At(t, r.next) = 44
    THEN ParseElements(t, r.next + 1, Append(acc, r.val))
    ELSE IF At(t, r.next) = 93
    THEN Parsed([t |-> "list", items |-> Append(acc, r.val)], r.next + 1)
    ELSE ParseFail

\* The elements of an array after "[" or ",".
ParseElements(t, i, acc) == AfterElement(t, acc, ParseValue(t, i))

\* The value r of the key was read: "," and more, or "}".
AfterMember(t, acc, key, r) ==
    IF ~r.ok THEN ParseFail
    ELSE IF At(t, r.next) = 44
    THEN ParseMembers(t, r.next + 1, Append(acc, <<key, r.val>>))
    ELSE IF At(t, r.next) = 125
    THEN Parsed([t |-> "dict", items |-> Append(acc, <<key, r.val>>)],
                r.next + 1)
    ELSE ParseFail

\* The key k of a pair was read: ":" and the value.
AfterKey(t, acc, k) ==
    IF ~k.ok \/ At(t, k.next) # 58 THEN ParseFail
    ELSE AfterMember(t, acc, k.val.s, ParseValue(t, k.next + 1))

\* The "key":value pairs of an object after "{" or ",".
ParseMembers(t, i, acc) == AfterKey(t, acc, ParseString(t, i))

ParseValue(t, i) ==
    IF StartsWith(t, i, <<110, 117, 108, 108>>)
    THEN Parsed([t |-> "NoneType"], i + 4)
    ELSE IF StartsWith(t, i, <<116, 114, 117, 101>>)
    THEN Parsed([t |-> "bool", v |-> 1], i + 4)
    ELSE IF StartsWith(t, i, <<102, 97, 108, 115, 101>>)
    THEN Parsed([t |-> "bool", v |-> 0], i + 5)
    ELSE IF At(t, i) = 34 THEN ParseString(t, i)
    ELSE IF At(t, i) = 45 \/ IsDigit(At(t, i)) THEN ParseNumber(t, i)
    ELSE IF At(t, i) = 91
    THEN IF At(t, i + 1) = 93
         THEN Parsed([t |-> "list", items |-> <<>>], i + 2)
         ELSE ParseElements(t, i + 1, <<>>)
    ELSE IF At(t, i) = 123
    THEN IF At(t, i + 1) = 125
         THEN Parsed([t |-> "dict", items |-> <<>>], i + 2)
         ELSE ParseMembers(t, i + 1, <<>>)
    ELSE ParseFail

\* One value and nothing after it, else JSONDecodeError.
LoadsResult(t, r) ==
    IF r.ok /\ r.next = Len(t) + 1
    THEN [kind |-> "ok", value |-> r.val]
    ELSE Raise("JSONDecodeError")

\* json.loads
JsonLoads(t) == LoadsResult(t, ParseValue(t, 1))

(***************************************************************************)
(* SpecStats: a LatencyStats object under arbitrary calls.                 *)
(***************************************************************************)
ListenerOff ==
    /\ pc = "off"
    /\ format_type = "none"
    /\ sock = "unbound"
    /\ received = <<>>
    /\ reports = <<>>
    /\ exit_code = "running"
    /\ fd = "none"
    /\ message_count = 0
    /\ sent = <<>>

CodecOff ==
    /\ wire_msg = [kind |-> "none"]
    /\ wire = <<>>
    /\ tampered = FALSE
    /\ decoded = [kind |-> "none"]

InitStats ==
    /\ \E n \in 1..MaxWindow : stats = LatencyStatsInit(n)
    /\ added = <<>>
    /\ summary = [kind |-> "not called"]
    /\ ListenerOff
    /\ CodecOff

AddLatency ==
    /\ pc = "off"
    /\ Len(added) < MaxAdds
    /\ \E v \in Samples :
          /\ stats' = add_latency(stats, v)
          /\ added' = Append(added, v)
    /\ UNCHANGED <<summary, listenerVars, producerVars, codecVars>>

GetStats ==
    /\ pc = "off"
    /\ summary' = get_stats(stats)
    /\ UNCHANGED <<stats, added, listenerVars, producerVars, codecVars>>

NextStats == AddLatency \/ GetStats

SpecStats == InitStats /\ [][NextStats]_vars

(***************************************************************************)
(* SpecCodec: a message is encoded, the bytes may be altered on the way    *)
(* (cut short, extended, the status byte replaced), and the listener's     *)
(* decoder is applied to what arrives.                                     *)
(***************************************************************************)
MaxExtra == 2       \* bytes appended beyond the record's length

\* 1234567890, 1700000000000000000 and 2^64 - 1.
SendTimes == {<<0, 0, 18838, 722>>, <<6039, 40190, 13866, 0>>,
              <<65535, 65535, 65535, 65535>>}

\* 0, 42 and 2^32 - 1.
Counters == {<<0, 0>>, <<0, 42>>, <<65535, 65535>>}

\* 25.5 (exact in 32 bits), 0.1 (rounded up) and 15.999999999999998
\* (rounds to 16.0, carrying into the exponent).
Temperatures == {[s |-> 0, e |-> 4, hi |-> 4980736, lo |-> 0],
                 [s |-> 0, e |-> -4, hi |-> 5033164, lo |-> 429496730],
                 [s |-> 0, e |-> 3, hi |-> 8388607, lo |-> 536870911]}

\* -0.3 (rounded up).
Humidities == {[s |-> 1, e |-> -2, hi |-> 1677721, lo |-> 322122547]}

Messages ==
    [send_time : SendTimes, counter : Counters,
     data : [temperature : Temperatures, humidity : Humidities,
             status : {"active", "inactive"}]]

StatsOff ==
    /\ stats = LatencyStatsInit(1)
    /\ added = <<>>
    /\ summary = [kind |-> "not called"]

InitCodec ==
    /\ wire_msg \in Messages
    /\ wire = <<>>
    /\ tampered = FALSE
    /\ decoded = [kind |-> "none"]
    /\ StatsOff
    /\ ListenerOff

Encode ==
    /\ wire_msg \in Messages
    /\ wire = <<>> /\ ~tampered /\ decoded.kind = "none"
    /\ LET r == encode_binary_message(wire_msg)
       IN  /\ r.kind = "ok"
           /\ wire' = r.bytes
    /\ UNCHANGED <<wire_msg, tampered, decoded, statsVars, listenerVars,
                   producerVars>>

Truncate ==
    /\ wire_msg \in Messages
    /\ wire # <<>> /\ ~tampered /\ decoded.kind = "none"
    /\ \E n \in 0..(Len(wire) - 1) : wire' = SubSeq(wire, 1, n)
    /\ tampered' = TRUE
    /\ UNCHANGED <<wire_msg, decoded, statsVars, listenerVars, producerVars>>

Extend ==
    /\ wire_msg \in Messages
    /\ Len(wire) >= StructSize /\ Len(wire) < StructSize + MaxExtra
    /\ decoded.kind = "none"
    /\ \E b \in {0, 1} : wire' = Append(wire, b)
    /\ tampered' = TRUE
    /\ UNCHANGED <<wire_msg, decoded, statsVars, listenerVars, producerVars>>

SetStatusByte ==
    /\ wire_msg \in Messages
    /\ Len(wire) = StructSize /\ ~tampered /\ decoded.kind = "none"
    /\ \E b \in Bytes : b # wire[21] /\ wire' = [wire EXCEPT ![21] = b]
    /\ tampered' = TRUE
    /\ UNCHANGED <<wire_msg, decoded, statsVars, listenerVars, producerVars>>

Decode ==
    /\ wire_msg \in Messages
    /\ (wire # <<>> \/ tampered) /\ decoded.kind = "none"
    /\ decoded' = decode_binary_message(wire)
    /\ UNCHANGED <<wire_msg, wire, tampered, statsVars, listenerVars,
                   producerVars>>

NextCodec == Encode \/ Truncate \/ Extend \/ SetStatusByte \/ Decode

SpecCodec == InitCodec /\ [][NextCodec]_vars

(***************************************************************************)
(* The datagrams the model's network delivers.                             *)
(***************************************************************************)
\* The text 'send_time'.
SendTimeKey == <<115, 101, 110, 100, 95, 116, 105, 109, 101>>

\* The text {"send_time":value} as bytes.
ObjSendTime(value) ==
    <<123, 34>> \o SendTimeKey \o <<34, 58>> \o value \o <<125>>

\* {"send_time":1000}  {"send_time":0.000001}  {"send_time":0.0000000017}
\* {"counter":7}  null
WellFormedTexts ==
    {ObjSendTime(<<49, 48, 48, 48>>),
     ObjSendTime(<<48, 46, 48, 48, 48, 48, 48, 49>>),
     ObjSendTime(<<48, 46, 48, 48, 48, 48, 48, 48, 48, 48, 49, 55>>),
     <<123, 34, 99, 111, 117, 110, 116, 101, 114, 34, 58, 55, 125>>,
     <<110, 117, 108, 108>>}

\* The broken text { and the byte ff, which is not UTF-8.
BrokenTexts == {<<123>>, <<255>>}

\* Messages whose send_time is a small number of nanoseconds, so that the
\* latencies and their squares stay within TLC's integers.
ListenerMessages ==
    [send_time : {<<0, 0, 0, 1000>>, <<0, 0, 0, 1990>>},
     counter : {<<0, 1>>},
     data : [temperature : {[s |-> 0, e |-> 4, hi |-> 4980736, lo |-> 0]},
             humidity : {[s |-> 0, e |-> 5, hi |-> 7340032, lo |-> 0]},
             status : {"active"}]]

BinaryRecords == {encode_binary_message(m).bytes : m \in ListenerMessages}

\* A record cut to its first 12 bytes ('!QI'), and one with a byte too many.
BrokenRecords ==
    {SubSeq(r, 1, 12) : r \in BinaryRecords}
        \cup {Append(r, 0) : r \in BinaryRecords}

Datagrams == WellFormedTexts \cup BrokenTexts \cup BinaryRecords
                 \cup BrokenRecords

(***************************************************************************)
(* listen_for_multicast: the body of one iteration of the receive loop.    *)
(***************************************************************************)
\* 'send_time' in message: a key of a dict, an element of a list, a
\* substring of a str; TypeError for a value that is no container.
Contains(message) ==
    IF message.t = "dict"
    THEN [kind |-> "ok",
          b |-> \E k \in 1..Len(message.items) :
                   message.items[k][1] = SendTimeKey]
    ELSE IF message.t = "list"
    THEN [kind |-> "ok",
          b |-> \E k \in 1..Len(message.items) :
                   message.items[k] = [t |-> "str", s |-> SendTimeKey]]
    ELSE IF message.t = "str"
    THEN [kind |-> "ok",
          b |-> \E k \in 1..Len(message.s) :
                   StartsWith(message.s, k, SendTimeKey)]
    ELSE Raise("TypeError")

\* message['send_time']: the value of the key (the last one when the text
\* repeats it); TypeError for a list or a str, KeyError for a missing key.
GetItem(message) ==
    IF message.t = "dict"
    THEN LET ks == {k \in 1..Len(message.items) :
                       message.items[k][1] = SendTimeKey}
         IN  IF ks = {} THEN Raise("KeyError")
             ELSE [kind |-> "ok",
                   value |-> message.items[
                       CHOOSE k \in ks : \A j \in ks : j <= k][2]]
    ELSE Raise("TypeError")

RECURSIVE Pow10(_)
Pow10(n) == IF n = 0 THEN 1 ELSE 10 * Pow10(n - 1)

\* int(a / b) for b > 0: the quotient truncated toward zero.
TruncDiv(a, b) == IF a >= 0 THEN a \div b ELSE -((-a) \div b)

\* int(x * 1_000_000_000) for the float x = mant * 10^-exp10.
IntOfSeconds(x) ==
    IF x.exp10 <= 9 THEN x.mant * Pow10(9 - x.exp10)
    ELSE TruncDiv(x.mant, Pow10(x.exp10 - 9))

\* send_time_ns: int(v * 1_000_000_000) if isinstance(v, float) else v
SendTimeNs(v) ==
    IF v.t = "float" THEN [t |-> "int", v |-> IntOfSeconds(v)] ELSE v

\* time.time_ns() - send_time_ns: TypeError unless send_time_ns is a number.
Latency(now, send_time_ns) ==
    IF send_time_ns.t \in {"int", "bool"}
    THEN [kind |-> "ok", v |-> now - send_time_ns.v]
    ELSE Raise("TypeError")

\* The integer an unpacked 'Q' field denotes.
IntOfLimbs(v) == ((v[1] * 65536 + v[2]) * 65536 + v[3]) * 65536 + v[4]

\* The printed block of a decoded message, with stats.get_stats().
PrintMessage(s2, send_time_ns, latency_ns, line) ==
    IF line.kind = "raise" THEN line
    ELSE [kind |-> "ok", stats |-> s2, samples |-> <<latency_ns>>,
          report |-> [kind |-> "message", send_time_ns |-> send_time_ns,
                      latency_ns |-> latency_ns, stats |-> line]]

\* After stats.add_latency(latency_ns) gave s2: print.
AfterAddLatency(s2, send_time_ns, latency_ns) ==
    PrintMessage(s2, send_time_ns, latency_ns, get_stats(s2))

\* The end of both branches: stats.add_latency(latency_ns), then the print.
RecordLatency(s, send_time_ns, latency_ns) ==
    AfterAddLatency(add_latency(s, latency_ns), send_time_ns, latency_ns)

\* Nothing printed but the separator line.
NoReport(s) ==
    [kind |-> "ok", stats |-> s, samples |-> <<>>, report |-> [kind |-> "none"]]

\* latency_ns = time.time_ns() - send_time_ns was evaluated.
AfterLatency(send_time_ns, latency_ns, s) ==
    IF latency_ns.kind = "raise" THEN latency_ns
    ELSE RecordLatency(s, send_time_ns.v, latency_ns.v)

\* send_time_ns was evaluated.
AfterSendTimeNs(send_time_ns, now, s) ==
    AfterLatency(send_time_ns, Latency(now, send_time_ns), s)

\* message['send_time'] was evaluated.
AfterGetItem(item, now, s) ==
    IF item.kind = "raise" THEN item
    ELSE AfterSendTimeNs(SendTimeNs(item.value), now, s)

\* if 'send_time' in message: ...
IfSendTimeInMessage(message, has, now, s) ==
    IF has.kind = "raise" THEN has
    ELSE IF ~has.b THEN NoReport(s)
    ELSE AfterGetItem(GetItem(message), now, s)

\* message = json.loads(decoded_data) was evaluated.
AfterJsonLoads(message, now, s) ==
    IF message.kind = "raise" THEN message
    ELSE IfSendTimeInMessage(message.value, Contains(message.value), now, s)

\* decoded_data = data.decode('utf-8') was evaluated.
AfterUtf8Decode(decoded_data, now, s) ==
    IF decoded_data.kind = "raise" THEN decoded_data
    ELSE AfterJsonLoads(JsonLoads(decoded_data.text), now, s)

\* if format_type == 'json': ...
JsonBody(data, now, s) == AfterUtf8Decode(Utf8Decode(data), now, s)

\* The send_time of a decoded binary message as an integer.
AfterIntOfLimbs(send_time, now, s) ==
    RecordLatency(s, send_time, now - send_time)

\* message = decode_binary_message(data) was evaluated.
AfterBinaryDecode(message, now, s) ==
    IF message.kind = "raise" THEN message
    ELSE AfterIntOfLimbs(IntOfLimbs(message.message.send_time), now, s)

\* elif format_type == 'binary': ...
BinaryBody(data, now, s) ==
    AfterBinaryDecode(decode_binary_message(data), now, s)

\* The statements of the try block.
TryBody(fmt, data, now, s) ==
    IF fmt = "json" THEN JsonBody(data, now, s)
    ELSE IF fmt = "binary" THEN BinaryBody(data, now, s)
    ELSE NoReport(s)

\* except (json.JSONDecodeError, struct.error)
CaughtJsonOnly(exc) == exc \in {"JSONDecodeError"}

Caught(exc) == exc \in {"JSONDecodeError", "struct.error"}

\* The except clause: the decode failure report for an exception it names;
\* any other exception leaves the loop.
ExceptClause(s, data, r) ==
    IF r.kind = "raise" /\ Caught(r.exc)
    THEN [kind |-> "ok", stats |-> s, samples |-> <<>>,
          report |-> [kind |-> "decode_error", exc |-> r.exc,
                      length |-> Len(data)]]
    ELSE r

\* The try statement inside the loop.
Iteration(fmt, data, now, s) ==
    ExceptClause(s, data, TryBody(fmt, data, now, s))

\* finally: sock.close().  The name sock is unbound when
\* create_multicast_socket raised.
Finally(sk) == IF sk = "open" THEN "closed" ELSE sk

\* What finally: sock.close() does to the socket f: it is closed through
\* the name sock, and only when that name is bound.  When it is unbound
\* the clause raises UnboundLocalError and the socket stays as it was.
Close(sk, f) == IF sk = "open" THEN "closed" ELSE f

(***************************************************************************)
(* Spec: the listener process.                                             *)
(***************************************************************************)
DefaultWindow == 100

\* The values time.time_ns() returns when the latency is computed.
Now == {2000, 2600}

Init ==
    /\ pc = "setup"
    /\ format_type \in {"json", "binary"}
    /\ sock = "unbound"
    /\ received = <<>>
    /\ reports = <<>>
    /\ exit_code = "running"
    /\ fd = "none"
    /\ message_count = 0
    /\ sent = <<>>
    /\ stats = LatencyStatsInit(DefaultWindow)
    /\ added = <<>>
    /\ summary = [kind |-> "not called"]
    /\ CodecOff

\* create_multicast_socket returns; stats = LatencyStats().
CreateSocket ==
    /\ pc = "setup"
    /\ sock' = "open"
    /\ fd' = "open"
    /\ stats' = LatencyStatsInit(DefaultWindow)
    /\ pc' = "recv"
    /\ UNCHANGED <<added, summary, format_type, received, reports, exit_code,
                   producerVars, codecVars>>

\* create_multicast_socket raises: in socket.socket() itself (no socket
\* was made), or in a later call (bind, the interface or the group is
\* refused) with the socket made and held only by the local name of
\* create_multicast_socket.  except Exception prints and calls
\* sys.exit(1); the finally clause then finds sock unbound, and the
\* UnboundLocalError it raises ends the process with status 1.
CreateSocketFails ==
    /\ pc = "setup"
    /\ \E made \in BOOLEAN :
          fd' = Close(sock, IF made THEN "open" ELSE "none")
    /\ reports' = Append(reports, [kind |-> "fatal", exc |-> "OSError"])
    /\ sock' = Finally(sock)
    /\ pc' = "exited"
    /\ exit_code' = "1"
    /\ UNCHANGED <<statsVars, format_type, received, producerVars, codecVars>>

\* The end of an iteration whose try statement gave r: back to recvfrom,
\* or out of the loop through except Exception, sys.exit(1) and finally.
EndIteration(data, r) ==
    /\ received' = Append(received, data)
    /\ IF r.kind = "ok"
       THEN /\ stats' = r.stats
            /\ added' = added \o r.samples
            /\ reports' = Append(reports, r.report)
            /\ UNCHANGED <<pc, sock, fd, exit_code>>
       ELSE /\ reports' = Append(reports, [kind |-> "fatal", exc |-> r.exc])
            /\ sock' = Finally(sock)
            /\ fd' = Close(sock, fd)
            /\ pc' = "exited"
            /\ exit_code' = "1"
            /\ UNCHANGED <<stats, added>>

\* One iteration: recvfrom returns a datagram and the try statement runs.
Receive ==
    /\ pc = "recv"
    /\ Len(received) < MaxDatagrams
    /\ \E data \in Datagrams, now \in Now :
          EndIteration(data, Iteration(format_type, data, now, stats))
    /\ UNCHANGED <<summary, format_type, producerVars, codecVars>>

\* recvfrom raises OSError: except Exception, sys.exit(1), finally.
ReceiveFails ==
    /\ pc = "recv"
    /\ reports' = Append(reports, [kind |-> "fatal", exc |-> "OSError"])
    /\ sock' = Finally(sock)
    /\ fd' = Close(sock, fd)
    /\ pc' = "exited"
    /\ exit_code' = "1"
    /\ UNCHANGED <<statsVars, format_type, received, producerVars, codecVars>>

\* Ctrl+C while the loop waits: except KeyboardInterrupt, finally.
KeyboardInterrupt ==
    /\ pc = "recv"
    /\ sock' = Finally(sock)
    /\ fd' = Close(sock, fd)
    /\ pc' = "exited"
    /\ exit_code' = "0"
    /\ UNCHANGED <<statsVars, format_type, received, reports, producerVars,
                   codecVars>>

Next == CreateSocket \/ CreateSocketFails \/ Receive \/ ReceiveFails
            \/ KeyboardInterrupt

Spec == Init /\ [][Next]_vars

(***************************************************************************)
(* The producer: json.dumps, send_message and main of                      *)
(* multicast_producer.py.                                                  *)
(***************************************************************************)
MaxMessages == 3

\* The values time.time_ns() returns: 1700000000000123000 and
\* 1700000001000000000.
Clock == {<<6039, 40190, 13867, 57464>>, <<6039, 40190, 29124, 51712>>}

\* The texts datetime.now().isoformat() returns:
\* 2023-11-14T22:13:20.000123 and 2023-11-14T22:13:21.
IsoFormats ==
    {<<50, 48, 50, 51, 45, 49, 49, 45, 49, 52, 84, 50, 50, 58, 49, 51, 58,
       50, 48, 46, 48, 48, 48, 49, 50, 51>>,
     <<50, 48, 50, 51, 45, 49, 49, 45, 49, 52, 84, 50, 50, 58, 49, 51, 58,
       50, 49>>}

\* What sock.sendto does: it returns, or it raises OSError.
SendtoOutcomes == {"ok", "OSError"}

RECURSIVE Log2(_)
Log2(n) == IF n < 2 THEN 0 ELSE 1 + Log2(n \div 2)

\* The double n * 2^-sh for an integer n in 1..2^23, whose leading bit is
\* bit k.
DyadicAt(n, sh, k) ==
    [s |-> 0, e |-> k - sh, hi |-> (n - 2 ^ k) * 2 ^ (23 - k), lo |-> 0]

Dyadic(n, sh) == DyadicAt(n, sh, Log2(n))

\* The message dict main builds.  25.5 + (message_count % 10) is exact in
\* binary floating point: it is (51 + 2 * (message_count % 10)) / 2.
\* counter and humidity are Python ints.
Message(count, send_time, timestamp) ==
    [timestamp |-> timestamp,
     send_time |-> send_time,
     counter |-> count,
     data |-> [temperature |-> Dyadic(51 + 2 * (count % 10), 1),
               humidity |-> 60 + (count % 20),
               status |-> "active"]]

\* The fields as struct.pack takes them: 'I' takes the int counter, here
\* as two 16-bit limbs, and 'f' takes float(humidity).
StructArgs(message) ==
    [message EXCEPT !.counter = <<@ \div 65536, @ % 65536>>,
                    !.data.humidity = Dyadic(@, 0)]

\* str(n) for an int n >= 0.
RECURSIVE Digits(_)
Digits(n) ==
    IF n < 10 THEN <<48 + n>> ELSE Digits(n \div 10) \o <<48 + (n % 10)>>

\* Long division of the limbs v[i..] by ten, with r carried in and the
\* quotient limbs so far in q.
RECURSIVE DivTen(_, _, _, _)
DivTen(v, i, r, q) ==
    IF i > Len(v) THEN [q |-> q, r |-> r]
    ELSE DivTen(v, i + 1, (r * 65536 + v[i]) % 10,
                Append(q, (r * 65536 + v[i]) \div 10))

\* str(n) for an int n >= 0 kept as limbs.
RECURSIVE LimbsDigits(_)
LimbsDigitsStep(d) == LimbsDigits(d.q) \o <<48 + d.r>>

LimbsDigits(v) ==
    IF v[1] = 0 /\ v[2] = 0 /\ v[3] = 0 /\ v[4] < 10 THEN <<48 + v[4]>>
    ELSE LimbsDigitsStep(DivTen(v, 1, 0, <<>>))

\* float.__repr__ for a double that is a multiple of 0.5, twice being two
\* times its value: 25.5, 26.5, ...
HalvesRepr(twice) ==
    Digits(twice \div 2) \o <<46>> \o (IF twice % 2 = 1 THEN <<53>> ELSE <<48>>)

FloatRepr(f) == HalvesRepr((8388608 + f.hi) \div (2 ^ (22 - f.e)))

StrBytes(status) ==
    IF status = "active" THEN <<97, 99, 116, 105, 118, 101>>
    ELSE <<105, 110, 97, 99, 116, 105, 118, 101>>

\* json.dumps(message).encode('utf-8'): the keys in insertion order, the
\* separators ", " and ": "; the text is ASCII, so encoding keeps it.
\*   {"timestamp": "...", "send_time": n, "counter": n, "data":
\*    {"temperature": x, "humidity": n, "status": "..."}}
JsonDumps(message) ==
    <<123, 34, 116, 105, 109, 101, 115, 116, 97, 109, 112, 34, 58, 32, 34>>
    \o message.timestamp
    \o <<34, 44, 32, 34, 115, 101, 110, 100, 95, 116, 105, 109, 101, 34, 58,
         32>>
    \o LimbsDigits(message.send_time)
    \o <<44, 32, 34, 99, 111, 117, 110, 116, 101, 114, 34, 58, 32>>
    \o Digits(message.counter)
    \o <<44, 32, 34, 100, 97, 116, 97, 34, 58, 32, 123, 34, 116, 101, 109,
         112, 101, 114, 97, 116, 117, 114, 101, 34, 58, 32>>
    \o FloatRepr(message.data.temperature)
    \o <<44, 32, 34, 104, 117, 109, 105, 100, 105, 116, 121, 34, 58, 32>>
    \o Digits(message.data.humidity)
    \o <<44, 32, 34, 115, 116, 97, 116, 117, 115, 34, 58, 32, 34>>
    \o StrBytes(message.data.status)
    \o <<34, 125, 125>>

\* What a send_message call did: handed holds the datagram passed to
\* sendto when sendto returned, prints what the call printed.
SendError(exc) == [kind |-> "send error", exc |-> exc]

\* sock.sendto(data, (group, port)) and the prints after it; except
\* Exception prints the error and re-raises it.
SendTo(data, sendto) ==
    IF sendto = "ok"
    THEN [kind |-> "ok", handed |-> <<data>>,
          prints |-> <<[kind |-> "sent", length |-> Len(data)]>>]
    ELSE [kind |-> "raise", exc |-> sendto, handed |-> <<>>,
          prints |-> <<SendError(sendto)>>]

\* The binary branch after encode_binary_message returned or raised e.
AfterEncode(e, sendto) ==
    IF e.kind = "raise"
    THEN [kind |-> "raise", exc |-> e.exc, handed |-> <<>>,
          prints |-> <<SendError(e.exc)>>]
    ELSE SendTo(e.bytes, sendto)

\* send_message
SendMessageSwallows(fmt, message, sendto) ==
    IF sendto = "ok"
    THEN IF fmt = "json" THEN SendTo(JsonDumps(message), sendto)
         ELSE AfterEncode(encode_binary_message(StructArgs(message)), sendto)
    ELSE [kind |-> "ok", handed |-> <<>>, prints |-> <<SendError(sendto)>>]

send_message(fmt, message, sendto) ==
    IF fmt = "json" THEN SendTo(JsonDumps(message), sendto)
    ELSE AfterEncode(encode_binary_message(StructArgs(message)), sendto)

\* message_count += 1
CountStuck(count) == count

IncrementCount(count) == count + 1

(***************************************************************************)
(* SpecProducer: the producer process.                                     *)
(***************************************************************************)
InitProducer ==
    /\ pc = "setup"
    /\ format_type \in {"json", "binary"}
    /\ sock = "unbound"
    /\ received = <<>>
    /\ reports = <<>>
    /\ exit_code = "running"
    /\ fd = "none"
    /\ message_count = 0
    /\ sent = <<>>
    /\ StatsOff
    /\ CodecOff

\* create_multicast_sender returns; message_count = 0.
CreateSender ==
    /\ pc = "setup"
    /\ sock' = "open"
    /\ fd' = "open"
    /\ message_count' = 0
    /\ pc' = "send"
    /\ UNCHANGED <<statsVars, format_type, received, reports, exit_code, sent,
                   codecVars>>

\* create_multicast_sender raises: in socket.socket() itself, or in a
\* later call (the TTL or the interface is refused) with the socket made.
\* except Exception prints and calls sys.exit(1); the finally clause then
\* finds sock unbound, and the UnboundLocalError it raises ends the
\* process with status 1.
CreateSenderFails ==
    /\ pc = "setup"
    /\ \E made \in BOOLEAN :
          fd' = Close(sock, IF made THEN "open" ELSE "none")
    /\ reports' = Append(reports, [kind |-> "fatal", exc |-> "OSError"])
    /\ sock' = Finally(sock)
    /\ pc' = "exited"
    /\ exit_code' = "1"
    /\ UNCHANGED <<statsVars, format_type, received, producerVars, codecVars>>

\* The rest of the iteration after send_message gave r: the counter is
\* incremented and the loop sleeps, or the error leaves the loop through
\* except Exception, sys.exit(1) and finally.
AfterSendMessage(r) ==
    /\ sent' = sent \o r.handed
    /\ IF r.kind = "ok"
       THEN /\ reports' = reports \o r.prints
            /\ message_count' = IncrementCount(message_count)
            /\ pc' = "sleep"
            /\ UNCHANGED <<sock, fd, exit_code>>
       ELSE /\ reports' = (reports \o r.prints)
                              \o <<[kind |-> "fatal", exc |-> r.exc]>>
            /\ sock' = Finally(sock)
            /\ fd' = Close(sock, fd)
            /\ pc' = "exited"
            /\ exit_code' = "1"
            /\ UNCHANGED message_count

\* One tick: the time is read, the message is built and send_message is
\* called.
Send ==
    /\ pc = "send"
    /\ message_count < MaxMessages
    /\ Len(sent) < MaxMessages
    /\ \E send_time \in Clock, timestamp \in IsoFormats,
          sendto \in SendtoOutcomes :
          AfterSendMessage(send_message(format_type,
              Message(message_count, send_time, timestamp), sendto))
    /\ UNCHANGED <<statsVars, format_type, received, codecVars>>

\* time.sleep(args.interval) returns.
Sleep ==
    /\ pc = "sleep"
    /\ pc' = "send"
    /\ UNCHANGED <<statsVars, format_type, sock, received, reports, exit_code,
                   fd, producerVars, codecVars>>

\* Ctrl+C while the loop runs: except KeyboardInterrupt, finally.
ProducerInterrupt ==
    /\ pc \in {"send", "sleep"}
    /\ sock' = Finally(sock)
    /\ fd' = Close(sock, fd)
    /\ pc' = "exited"
    /\ exit_code' = "0"
    /\ UNCHANGED <<statsVars, format_type, received, reports, producerVars,
                   codecVars>>

NextProducer == CreateSender \/ CreateSenderFails \/ Send \/ Sleep
                    \/ ProducerInterrupt

SpecProducer == InitProducer /\ [][NextProducer]_vars

(***************************************************************************)
(* Properties of the listener loop, checked under Spec.                    *)
(***************************************************************************)
\* The bytes cannot be decoded in the format: not UTF-8 or not JSON text
\* (json), not 21 bytes long (binary).
Undecodable(fmt, data) ==
    IF fmt = "json"
    THEN \/ Utf8Decode(data).kind = "raise"
         \/ JsonLoads(Utf8Decode(data).text).kind = "raise"
    ELSE Len(data) # 21

\* C1: in either format no malformed or undecodable datagram ends the
\* receive loop: for every received byte sequence that cannot be decoded
\* the listener reports the decode failure and goes on receiving.
C1_UndecodableIsReportedAndLoopGoesOn ==
    \A i \in 1..Len(received) :
        Undecodable(format_type, received[i]) =>
            reports[i].kind = "decode_error"

\* The number of 21-byte datagrams among the first n received.
ValidCount(n) == Cardinality({j \in 1..n : Len(received[j]) = 21})

\* C2: in binary mode a datagram whose length is not 21 gets a decode
\* failure report and adds no latency sample, and a later 21-byte datagram
\* is still decoded, adds exactly one sample and is reported.
C2_BinaryLoopSurvivesMalformed ==
    format_type = "binary" =>
        /\ Len(reports) >= Len(received)
        /\ \A i \in 1..Len(received) :
              IF Len(received[i]) = 21
              THEN /\ reports[i].kind = "message"
                   /\ reports[i].stats.messages = ValidCount(i)
              ELSE reports[i].kind = "decode_error"
        /\ stats.message_count = ValidCount(Len(received))
        /\ Len(stats.latencies) = ValidCount(Len(received))

\* A malformed binary datagram, then a valid one: a failure report and no
\* sample for the first, a message report and one sample for the second.
C2_Witness ==
    /\ format_type = "binary"
    /\ Len(received) = 2
    /\ Len(received[1]) # 21
    /\ Len(received[2]) = 21
    /\ reports[1].kind = "decode_error"
    /\ reports[2].kind = "message"
    /\ reports[2].stats.messages = 1
    /\ stats.message_count = 1
    /\ pc = "recv"

\* The value of the key send_time in the JSON object the datagram spells.
SendTimeOf(data) == GetItem(JsonLoads(Utf8Decode(data).text).value).value

Abs(x) == IF x >= 0 THEN x ELSE -x

\* n is an integer nearest to x * 10^9 for the float x = mant * 10^-exp10.
IsNearestNs(n, x) ==
    IF x.exp10 <= 9 THEN n = x.mant * Pow10(9 - x.exp10)
    ELSE 2 * Abs(n * Pow10(x.exp10 - 9) - x.mant) <= Pow10(x.exp10 - 9)

\* C9: in json mode the send_time used for the latency is the integer as it
\* is, and for a fractional value the seconds times 1e9 rounded to the
\* nearest integer.
C9_SendTimeRoundedToNearest ==
    format_type = "json" =>
        \A i \in 1..Len(received) :
            reports[i].kind = "message" =>
                IF SendTimeOf(received[i]).t = "float"
                THEN IsNearestNs(reports[i].send_time_ns,
                                 SendTimeOf(received[i]))
                ELSE reports[i].send_time_ns = SendTimeOf(received[i]).v

\* The bytes are well-formed JSON text with no send_time field.
WellFormedWithoutSendTime(data) ==
    /\ Utf8Decode(data).kind = "ok"
    /\ JsonLoads(Utf8Decode(data).text).kind = "ok"
    /\ GetItem(JsonLoads(Utf8Decode(data).text).value).kind = "raise"

\* C10: in json mode a well-formed datagram without a send_time field is
\* decoded without error: nothing is raised, no decode failure is reported,
\* no latency sample is added and the loop goes on.
C10_MissingSendTimeIsSkipped ==
    format_type = "json" =>
        \A i \in 1..Len(received) :
            WellFormedWithoutSendTime(received[i]) =>
                reports[i].kind = "none"

(***************************************************************************)
(* Properties of LatencyStats, checked under SpecStats.                    *)
(***************************************************************************)
Min(a, b) == IF a <= b THEN a ELSE b

\* C3: after any sequence of add_latency calls on a LatencyStats with
\* window size N, the number of retained samples is min(message_count, N),
\* and message_count is the number of samples ever added.
C3_RetainedIsMinOfCountAndWindow ==
    /\ stats.message_count = Len(added)
    /\ Len(stats.latencies) = Min(stats.message_count, stats.window_size)

\* More samples were added than the window holds, and the window is full.
C3_Witness ==
    /\ pc = "off"
    /\ Len(added) > stats.window_size
    /\ Len(stats.latencies) = stats.window_size
    /\ stats.message_count = Len(added)

\* C4: after adding s1..sn the window holds exactly the last min(n, N)
\* samples in arrival order, get_stats reports sn as the current value and
\* n (not the window length) as the message count.
C4_WindowIsLastSamples ==
    /\ stats.latencies = LastN(added, stats.window_size)
    /\ added # <<>> =>
          /\ get_stats(stats).kind = "stats"
          /\ get_stats(stats).current = added[Len(added)]
          /\ get_stats(stats).messages = Len(added)

\* Capacity 3 and samples 10, 20, 30, 40: window 20, 30, 40, current 40,
\* count 4, as the last get_stats call reported.
C4_Witness ==
    /\ stats.window_size = 3
    /\ added = <<10, 20, 30, 40>>
    /\ stats.latencies = <<20, 30, 40>>
    /\ summary.kind = "stats"
    /\ summary.current = 40
    /\ summary.messages = 4

\* C5: get_stats never computes statistics over an empty window: with no
\* sample it returns the sentinel; with exactly one sample v it reports
\* deviation 0 and mean = min = max = current = v; the n-1 divisor is used
\* only for two samples or more, so no call raises and no divisor is 0.
C5_GetStatsEdgeCases ==
    LET r == get_stats(stats)
        n == Len(stats.latencies)
    IN  /\ r.kind # "raise"
        /\ summary.kind # "raise"
        /\ n = 0 <=> r = NoMessages
        /\ n = 1 =>
              /\ r.std = ZeroStd
              /\ r.avg.num = stats.latencies[1] * r.avg.den
              /\ r.min = stats.latencies[1]
              /\ r.max = stats.latencies[1]
              /\ r.current = stats.latencies[1]
        /\ n >= 2 => r.std.var_den = n * (n - 1) /\ r.std.var_den > 0

\* get_stats was called on a window of a single sample.
C5_Witness ==
    /\ Len(stats.latencies) = 1
    /\ summary.kind = "stats"
    /\ summary = get_stats(stats)
    /\ summary.std = ZeroStd
    /\ summary.current = added[Len(added)]

(***************************************************************************)
(* Properties of the binary codec, checked under SpecCodec.                *)
(***************************************************************************)
\* C6: decode_binary_message raises struct.error for every byte sequence
\* whose length is not exactly 21, shorter or longer, and returns a message
\* for every byte sequence of length 21.
C6_DecodeFailsIffLengthNot21 ==
    /\ Len(wire) # 21 =>
          decode_binary_message(wire) = Raise("struct.error")
    /\ Len(wire) = 21 => decode_binary_message(wire).kind = "ok"
    /\ decoded.kind # "none" => decoded = decode_binary_message(wire)

\* A record that is too long was refused.
C6_Witness ==
    /\ Len(wire) > 21
    /\ decoded = Raise("struct.error")

\* C7: for a 21-byte record the status is 'active' when the byte at offset
\* 20 is 1 and 'inactive' for every other value; no value of that byte is a
\* decode error.
C7_StatusByte ==
    Len(wire) = 21 =>
        LET r == decode_binary_message(wire)
        IN  /\ r.kind = "ok"
            /\ r.message.data.status =
                  IF wire[21] = 1 THEN "active" ELSE "inactive"

\* A status byte of 255 was decoded as inactive.
C7_Witness ==
    /\ Len(wire) = 21
    /\ wire[21] = 255
    /\ decoded.kind = "ok"
    /\ decoded.message.data.status = "inactive"

C11_SocketClosedOnEveryExit == pc = "exited" => fd # "open"

(***************************************************************************)
(* Properties of the producer loop, checked under SpecProducer.            *)
(***************************************************************************)
\* C12: a transport error in a send is fatal in both formats: once
\* send_message has reported a send error, the only thing that follows is
\* the fatal report of main; the process has exited with status 1, no
\* datagram was handed to sendto by the failed call or after it, and the
\* counter was not advanced.
C12_SendErrorIsFatal ==
    \A i \in 1..Len(reports) :
        reports[i].kind = "send error" =>
            /\ pc = "exited"
            /\ exit_code = "1"
            /\ Len(reports) = i + 1
            /\ reports[i + 1] = [kind |-> "fatal", exc |-> reports[i].exc]
            /\ Len(sent) = i - 1
            /\ message_count = i - 1

C12_Witness ==
    /\ format_type = "binary"
    /\ Len(sent) >= 2
    /\ \E i \in 1..Len(reports) : reports[i].kind = "send error"

\* The index at which lit starts in t at or after i, or 0.
RECURSIVE Find(_, _, _)
Find(t, lit, i) ==
    IF i + Len(lit) - 1 > Len(t) THEN 0
    ELSE IF StartsWith(t, i, lit) THEN i
    ELSE Find(t, lit, i + 1)

\* The digits at t[i..] as a number, -1 when there are none.
NumberFrom(t, i) ==
    IF i = 0 \/ ~IsDigit(At(t, i)) THEN -1
    ELSE DigitsValue(t, i, DigitsEnd(t, i), 0)

\* "counter": as bytes.
CounterKey == <<34, 99, 111, 117, 110, 116, 101, 114, 34, 58, 32>>

IndexAfter(i, lit) == IF i = 0 THEN 0 ELSE i + Len(lit)

UnpackedCounter(d) ==
    IF d.kind = "ok" THEN d.message.counter[1] * 65536 + d.message.counter[2]
    ELSE -1

\* The counter a receiver reads in the datagram data.
WireCounter(fmt, data) ==
    IF fmt = "json"
    THEN NumberFrom(data, IndexAfter(Find(data, CounterKey, 1), CounterKey))
    ELSE UnpackedCounter(decode_binary_message(data))

\* C13: within one producer run the counters of the datagrams handed to
\* sendto are 0, 1, 2, ... in send order: the first is 0 and each later
\* one is the previous one plus one, none skipped and none repeated.
C13_CountersAreConsecutiveFromZero ==
    \A i \in 1..Len(sent) : WireCounter(format_type, sent[i]) = i - 1

C13_Witness ==
    /\ format_type = "json"
    /\ Len(sent) >= 3
    /\ WireCounter(format_type, sent[3]) = 2

=============================================================================
